---- MODULE Spec2Model ----
(***************************************************************************)
(* LocalShell.exec of neofs-testlib (src/shell/local_shell.py) as a state  *)
(* machine: one exec call at a time, stepped through the two strategies,   *)
(* their exception handlers and finally blocks, the pexpect session and    *)
(* its child process, the capture file and the Reporter calls.             *)
(*                                                                         *)
(* Optional values (Python None) are sequences: <<>> is None, <<v>> is v.  *)
(* Output is a sequence of chunks; a chunk is a pair <<kind, n>>.          *)
(***************************************************************************)
EXTENDS Integers, Sequences, FiniteSets, TLC

\* ------------------------------------------------------------- bounds
\* longest interactive_inputs list handed to exec
MaxInputs == 2
\* chunks the child of a pty session writes on its own
MaxWritten == 3
\* exit codes range over 0..MaxRC
MaxRC == 2

\* ------------------------------------------------------------- values
None == <<>>
Some(v) == <<v>>

Commands == {"cmd"}
ReturnCodes == 0..MaxRC

Prompt(k) == <<"prompt", k>>
Echo(k) == <<"echo", k>>
Noise == <<"noise", 0>>
Text == <<"text", 0>>
NL == <<"nl", 0>>
StrError == <<"strerror", 0>>

\* what the child of a pty session may write: a prompt or something else
ChildChunks == {Prompt(k) : k \in 1..MaxInputs} \cup {Noise}

\* merged stdout+stderr of one run through the shell launcher
RunOutputs == {<<>>, <<Text>>, <<Text, NL>>}

\* options.interactive_inputs of length n: the k-th waits for prompt k, sends input k
InteractiveInputs(n) == [k \in 1..n |-> [prompt_pattern |-> k, input |-> k]]

CommandOptions ==
    { [interactive_inputs |-> InteractiveInputs(n), check |-> c, timeout |-> t] :
        n \in 0..MaxInputs, c \in BOOLEAN, t \in {"finite", "None"} }

CommandResult(out, err, rc) == [stdout |-> out, stderr |-> err, return_code |-> rc]

\* an exception: its type and the parts its message is formatted from
Exception(type, cmd, rc, out) ==
    [type |-> type, command |-> cmd, return_code |-> rc, output |-> out]

\* exceptions of the process libraries, which carry no formatted message
Raw(type) == Exception(type, None, None, None)

\* the subclasses of pexpect.ExceptionPexpect, and the class itself
PexpectTypes == {"pexpect.TIMEOUT", "pexpect.EOF", "pexpect.ExceptionPexpect"}

VARIABLES
    pc,               \* position of the exec call
    command,          \* exec's command argument
    options,          \* exec's options argument
    idx,              \* position of the loop over options.interactive_inputs
    site,             \* the call site of _get_pexpect_process_result being served
    log_file,         \* the capture file: state and content
    log_closes,       \* close() calls made on the capture file in this call
    command_process,  \* the pexpect handle: "None", "open", "closed"
    exitstatus,       \* command_process.exitstatus
    child,            \* the child of the pty session: state and exit code
    written,          \* everything the child and the pty echo wrote
    consumed,         \* how much of written earlier matches have consumed
    result,           \* the local variable result
    exc,              \* the exception in flight
    outcome,          \* what exec gave its caller
    reporter,         \* Reporter calls made in this call
    launches,         \* times the command was launched in this call
    first_run,        \* how the non-interactive subprocess.run ended
    first_fail,       \* the first wait of the session that failed
    sent,             \* the inputs sendline has sent to the session, in order
    matched,          \* how many expect(prompt_pattern) calls have returned
    allure_calls      \* AllureReporter.attach calls and what each gave allure

vars == <<pc, command, options, idx, site, log_file, log_closes, command_process,
          exitstatus, child, written, consumed, result, exc, outcome, reporter,
          launches, first_run, first_fail, sent, matched, allure_calls>>

NoRun == [end |-> "none", returncode |-> 0, output |-> <<>>]
NoOutcome == [kind |-> "none", exc |-> None, value |-> None]

\* the state a call starts from
Fresh(cmd, opts) ==
    /\ command' = cmd
    /\ options' = opts
    /\ idx' = 1
    /\ site' = "try"
    /\ log_file' = [state |-> "None", data |-> <<>>]
    /\ log_closes' = 0
    /\ command_process' = "None"
    /\ exitstatus' = None
    /\ child' = [state |-> "none", rc |-> 0]
    /\ written' = <<>>
    /\ consumed' = 0
    /\ result' = None
    /\ exc' = None
    /\ outcome' = NoOutcome
    /\ reporter' = [steps |-> 0, attaches |-> 0, open |-> FALSE]
    /\ launches' = 0
    /\ first_run' = NoRun
    /\ first_fail' = None
    /\ sent' = <<>>
    /\ matched' = 0
    /\ UNCHANGED allure_calls

Init ==
    /\ pc = "idle"
    /\ command = "cmd"
    /\ options = [interactive_inputs |-> <<>>, check |-> TRUE, timeout |-> "None"]
    /\ idx = 1
    /\ site = "try"
    /\ log_file = [state |-> "None", data |-> <<>>]
    /\ log_closes = 0
    /\ command_process = "None"
    /\ exitstatus = None
    /\ child = [state |-> "none", rc |-> 0]
    /\ written = <<>>
    /\ consumed = 0
    /\ result = None
    /\ exc = None
    /\ outcome = NoOutcome
    /\ reporter = [steps |-> 0, attaches |-> 0, open |-> FALSE]
    /\ launches = 0
    /\ first_run = NoRun
    /\ first_fail = None
    /\ sent = <<>>
    /\ matched = 0
    /\ allure_calls = <<>>

\* ------------------------------------------------------------- exec
\* CommandOptions(): no inputs, check, no timeout
DefaultCommandOptions ==
    [interactive_inputs |-> <<>>, check |-> TRUE, timeout |-> "None"]

\* options = options or CommandOptions(), for the optional argument opts
OptionsOrDefault(opts) == IF opts = None THEN DefaultCommandOptions ELSE opts[1]

\* mutant of Dispatch: the test is `interactive_inputs is not None`, true of an empty list
DispatchOnPresence(opts) ==
    IF Len(opts.interactive_inputs) >= 0 THEN "i_enter" ELSE "ni_run"

\* the strategy exec hands the call to
Dispatch(opts) == IF opts.interactive_inputs # <<>> THEN "i_enter" ELSE "ni_run"

\* exec: default options if none were given, then dispatch on interactive_inputs
Exec(cmd, opts) ==
    /\ pc \in {"idle", "done"}
    /\ Fresh(cmd, OptionsOrDefault(opts))
    /\ pc' = Dispatch(OptionsOrDefault(opts))

\* ------------------------------------------------------------- reporting
\* _report_command_result: the Reporter is called only for a result that is set
ReportCommandResult ==
    pc' = IF result # None THEN "report_step" ELSE "deliver"

\* with reporter.step(...): the scope is entered
ReporterStep ==
    /\ pc = "report_step"
    /\ reporter' = [reporter EXCEPT !.steps = @ + 1, !.open = TRUE]
    /\ pc' = "report_attach"
    /\ UNCHANGED <<sent, matched, allure_calls, command, options, idx, site, log_file, log_closes, command_process,
                   exitstatus, child, written, consumed, result, exc, outcome,
                   launches, first_run, first_fail>>

\* reporter.attach(command_attachment, "Command execution.txt")
ReporterAttach ==
    /\ pc = "report_attach"
    /\ reporter' = [reporter EXCEPT !.attaches = @ + 1]
    /\ pc' = "report_exit"
    /\ UNCHANGED <<sent, matched, allure_calls, command, options, idx, site, log_file, log_closes, command_process,
                   exitstatus, child, written, consumed, result, exc, outcome,
                   launches, first_run, first_fail>>

\* reporter.attach raises: the call was made, its exception replaces the one in flight
\* and passes through the with statement
ReporterAttachRaises ==
    /\ pc = "report_attach"
    /\ reporter' = [reporter EXCEPT !.attaches = @ + 1]
    /\ exc' = Some(Raw("ReporterError"))
    /\ pc' = "report_exit"
    /\ UNCHANGED <<sent, matched, allure_calls, command, options, idx, site, log_file,
                   log_closes, command_process, exitstatus, child, written, consumed,
                   result, outcome, launches, first_run, first_fail>>

\* mutant of ReporterStepExit: the scope is closed on the normal way out only, not
\* when an exception passes through the with statement
ReporterStepExitOnSuccess ==
    /\ pc = "report_exit"
    /\ reporter' = [reporter EXCEPT !.open = (exc # None)]
    /\ pc' = "deliver"
    /\ UNCHANGED <<sent, matched, allure_calls, command, options, idx, site, log_file,
                   log_closes, command_process, exitstatus, child, written, consumed,
                   result, exc, outcome, launches, first_run, first_fail>>

\* the step scope is left
ReporterStepExit ==
    /\ pc = "report_exit"
    /\ reporter' = [reporter EXCEPT !.open = FALSE]
    /\ pc' = "deliver"
    /\ UNCHANGED <<sent, matched, allure_calls, command, options, idx, site, log_file, log_closes, command_process,
                   exitstatus, child, written, consumed, result, exc, outcome,
                   launches, first_run, first_fail>>

\* the finally block is over: the exception in flight propagates, or result is returned
Deliver ==
    /\ pc = "deliver"
    /\ outcome' = IF exc # None
                  THEN [kind |-> "raise", exc |-> exc, value |-> None]
                  ELSE [kind |-> "return", exc |-> None, value |-> result]
    /\ pc' = "done"
    /\ UNCHANGED <<sent, matched, allure_calls, command, options, idx, site, log_file, log_closes, command_process,
                   exitstatus, child, written, consumed, result, exc, reporter,
                   launches, first_run, first_fail>>

\* ------------------------------------------------------------- fallback capture
\* subprocess.getstatusoutput drops one trailing newline of the output
StripNewline(out) ==
    IF Len(out) > 0 /\ out[Len(out)] = NL THEN SubSeq(out, 1, Len(out) - 1) ELSE out

\* _get_failing_command_result, for a second run that ends with rc and out
GetFailingCommandResult(rc, out) == CommandResult(StripNewline(out), <<>>, rc)

\* the second run never exits: getstatusoutput has no timeout and never returns
FallbackBlocks ==
    /\ \/ pc \in {"ni_except_called", "ni_except_exception"}
       \/ pc = "gr_enter" /\ command_process = "None"
    /\ launches' = launches + 1
    /\ pc' = "blocked"
    /\ UNCHANGED <<sent, matched, allure_calls, command, options, idx, site, log_file, log_closes, command_process,
                   exitstatus, child, written, consumed, result, exc, outcome,
                   reporter, first_run, first_fail>>

\* ------------------------------------------------------------- non-interactive
\* mutant of SubprocessRunExits: stderr is piped apart (stderr=subprocess.PIPE), so
\* what the command wrote there lands in the stderr field and not in stdout
SubprocessRunExitsSplitStderr(rc, out) ==
    /\ pc = "ni_run"
    /\ launches' = launches + 1
    /\ first_run' = [end |-> "exit", returncode |-> rc, output |-> out]
    /\ IF options.check /\ rc # 0
       THEN /\ exc' = Some(Exception("subprocess.CalledProcessError",
                                     None, Some(rc), Some(out)))
            /\ pc' = "ni_except_called"
            /\ UNCHANGED result
       ELSE /\ result' = Some(CommandResult(StripNewline(out),
                                            SubSeq(out, Len(StripNewline(out)) + 1,
                                                   Len(out)), rc))
            /\ pc' = "ni_finally"
            /\ UNCHANGED exc
    /\ UNCHANGED <<sent, matched, allure_calls, command, options, idx, site, log_file,
                   log_closes, command_process, exitstatus, child, written, consumed,
                   outcome, reporter, first_fail>>

\* mutant of SubprocessRunExits: the run is made with check=True whatever options.check
SubprocessRunExitsChecked(rc, out) ==
    /\ pc = "ni_run"
    /\ launches' = launches + 1
    /\ first_run' = [end |-> "exit", returncode |-> rc, output |-> out]
    /\ IF rc # 0
       THEN /\ exc' = Some(Exception("subprocess.CalledProcessError",
                                     None, Some(rc), Some(out)))
            /\ pc' = "ni_except_called"
            /\ UNCHANGED result
       ELSE /\ result' = Some(CommandResult(out, <<>>, rc))
            /\ pc' = "ni_finally"
            /\ UNCHANGED exc
    /\ UNCHANGED <<sent, matched, allure_calls, command, options, idx, site, log_file, log_closes, command_process,
                   exitstatus, child, written, consumed, outcome, reporter, first_fail>>

\* subprocess.run returns: the command exited with rc, having written out
SubprocessRunExits(rc, out) ==
    /\ pc = "ni_run"
    /\ launches' = launches + 1
    /\ first_run' = [end |-> "exit", returncode |-> rc, output |-> out]
    /\ IF options.check /\ rc # 0
       THEN /\ exc' = Some(Exception("subprocess.CalledProcessError",
                                     None, Some(rc), Some(out)))
            /\ pc' = "ni_except_called"
            /\ UNCHANGED result
       ELSE /\ result' = Some(CommandResult(out, <<>>, rc))
            /\ pc' = "ni_finally"
            /\ UNCHANGED exc
    /\ UNCHANGED <<sent, matched, allure_calls, command, options, idx, site, log_file, log_closes, command_process,
                   exitstatus, child, written, consumed, outcome, reporter, first_fail>>

\* subprocess.run raises OSError: the process could not be started
SubprocessRunOSError ==
    /\ pc = "ni_run"
    /\ first_run' = [end |-> "oserror", returncode |-> 0, output |-> <<>>]
    /\ exc' = Some(Raw("OSError"))
    /\ pc' = "ni_except_oserror"
    /\ UNCHANGED <<sent, matched, allure_calls, command, options, idx, site, log_file, log_closes, command_process,
                   exitstatus, child, written, consumed, result, outcome, reporter,
                   launches, first_fail>>

\* subprocess.run raises TimeoutExpired: the command outlived options.timeout
SubprocessRunTimeout ==
    /\ pc = "ni_run"
    /\ options.timeout = "finite"
    /\ launches' = launches + 1
    /\ first_run' = [end |-> "timeout", returncode |-> 0, output |-> <<>>]
    /\ exc' = Some(Raw("subprocess.TimeoutExpired"))
    /\ pc' = "ni_except_exception"
    /\ UNCHANGED <<sent, matched, allure_calls, command, options, idx, site, log_file, log_closes, command_process,
                   exitstatus, child, written, consumed, result, outcome, reporter,
                   first_fail>>

\* subprocess.run without a timeout on a command that never exits
SubprocessRunBlocks ==
    /\ pc = "ni_run"
    /\ options.timeout = "None"
    /\ launches' = launches + 1
    /\ first_run' = [end |-> "hang", returncode |-> 0, output |-> <<>>]
    /\ pc' = "blocked"
    /\ UNCHANGED <<sent, matched, allure_calls, command, options, idx, site, log_file, log_closes, command_process,
                   exitstatus, child, written, consumed, result, exc, outcome,
                   reporter, first_fail>>

\* except subprocess.CalledProcessError: fallback capture, then RuntimeError built
\* from the first run's return code and output
NiExceptCalledProcessError(rc, out) ==
    /\ pc = "ni_except_called"
    /\ result' = Some(GetFailingCommandResult(rc, out))
    /\ launches' = launches + 1
    /\ exc' = Some(Exception("RuntimeError", Some(command),
                             exc[1].return_code, exc[1].output))
    /\ pc' = "ni_finally"
    /\ UNCHANGED <<sent, matched, allure_calls, command, options, idx, site, log_file, log_closes, command_process,
                   exitstatus, child, written, consumed, outcome, reporter,
                   first_run, first_fail>>

\* mutant of NiExceptOSError: the fallback capture is made, as except Exception does
NiExceptOSErrorWithFallback ==
    /\ pc = "ni_except_oserror"
    /\ \E rc \in ReturnCodes, out \in RunOutputs :
           result' = Some(GetFailingCommandResult(rc, out))
    /\ launches' = launches + 1
    /\ exc' = Some(Exception("RuntimeError", Some(command), None, Some(<<StrError>>)))
    /\ pc' = "ni_finally"
    /\ UNCHANGED <<sent, matched, allure_calls, command, options, idx, site, log_file,
                   log_closes, command_process, exitstatus, child, written, consumed,
                   outcome, reporter, first_run, first_fail>>

\* mutant of NiExceptOSError: the error is raised only if options.check, as the
\* interactive strategy does
NiExceptOSErrorIfCheck ==
    /\ pc = "ni_except_oserror"
    /\ exc' = IF options.check
              THEN Some(Exception("RuntimeError", Some(command), None, Some(<<StrError>>)))
              ELSE None
    /\ pc' = "ni_finally"
    /\ UNCHANGED <<sent, matched, allure_calls, command, options, idx, site, log_file, log_closes, command_process,
                   exitstatus, child, written, consumed, result, outcome, reporter,
                   launches, first_run, first_fail>>

\* except OSError: RuntimeError with the command and strerror, no result
NiExceptOSError ==
    /\ pc = "ni_except_oserror"
    /\ exc' = Some(Exception("RuntimeError", Some(command), None, Some(<<StrError>>)))
    /\ pc' = "ni_finally"
    /\ UNCHANGED <<sent, matched, allure_calls, command, options, idx, site, log_file, log_closes, command_process,
                   exitstatus, child, written, consumed, result, outcome, reporter,
                   launches, first_run, first_fail>>

\* except Exception: fallback capture, then the exception is re-raised as it is
NiExceptException(rc, out) ==
    /\ pc = "ni_except_exception"
    /\ result' = Some(GetFailingCommandResult(rc, out))
    /\ launches' = launches + 1
    /\ pc' = "ni_finally"
    /\ UNCHANGED <<sent, matched, allure_calls, command, options, idx, site, log_file, log_closes, command_process,
                   exitstatus, child, written, consumed, exc, outcome, reporter,
                   first_run, first_fail>>

\* finally of _exec_non_interactive
NiFinally ==
    /\ pc = "ni_finally"
    /\ ReportCommandResult
    /\ UNCHANGED <<sent, matched, allure_calls, command, options, idx, site, log_file, log_closes, command_process,
                   exitstatus, child, written, consumed, result, exc, outcome,
                   reporter, launches, first_run, first_fail>>

\* ------------------------------------------------------------- pty session
\* the prompt pattern the loop is waiting for
CurrentInput == options.interactive_inputs[idx]

\* where the unconsumed output matches prompt pattern k
MatchAt(k) == {j \in (consumed + 1)..Len(written) : written[j] = Prompt(k)}

FirstMatch(k) == CHOOSE j \in MatchAt(k) : \A i \in MatchAt(k) : j <= i

\* chunks the child itself wrote (the pty's echo of sent input is not its own)
OwnChunks == Cardinality({j \in 1..Len(written) : written[j][1] # "echo"})

\* pexpect reads what is available; logfile_read receives every chunk read
ReadAvailable ==
    log_file' = [log_file EXCEPT
                   !.data = @ \o SubSeq(written, Len(@) + 1, Len(written))]

\* the except clause of _exec_interactive that catches an exception of this type
Handler(type) ==
    IF type \in PexpectTypes THEN "except_pexpect"
    ELSE IF type = "OSError" THEN "except_oserror"
    ELSE "except_exception"

\* e is raised: inside the try body the matching except clause takes it (and at once
\* calls _get_pexpect_process_result); inside an except clause it leaves for finally
RaiseAt(e) ==
    /\ exc' = Some(e)
    /\ IF site = "try"
       THEN /\ site' = Handler(e.type)
            /\ pc' = "gr_enter"
       ELSE /\ pc' = "i_finally"
            /\ UNCHANGED site

\* the first wait that failed is remembered with what had been written by then
NoteFail(at, how) ==
    first_fail' = IF first_fail = None
                  THEN Some([at |-> at, how |-> how, written |-> written])
                  ELSE first_fail

\* positions at which exec is driving the session and sees what the child does
SessionPcs == {"i_expect", "i_sendline", "gr_enter", "gr_expect_eof"}

\* the child writes a chunk to the pty
ChildWrites(c) ==
    /\ pc \in SessionPcs
    /\ child.state = "alive"
    /\ OwnChunks < MaxWritten
    /\ written' = Append(written, c)
    /\ UNCHANGED <<sent, matched, allure_calls, pc, command, options, idx, site, log_file, log_closes,
                   command_process, exitstatus, child, consumed, result, exc, outcome,
                   reporter, launches, first_run, first_fail>>

\* the child exits with code rc
ChildExits(rc) ==
    /\ pc \in SessionPcs
    /\ child.state = "alive"
    /\ child' = [state |-> "exited", rc |-> rc]
    /\ UNCHANGED <<sent, matched, allure_calls, pc, command, options, idx, site, log_file, log_closes,
                   command_process, exitstatus, written, consumed, result, exc, outcome,
                   reporter, launches, first_run, first_fail>>

\* ------------------------------------------------------------- interactive
\* _exec_interactive up to the try: the capture file is opened
ExecInteractiveEnter ==
    /\ pc = "i_enter"
    /\ log_file' = [state |-> "open", data |-> <<>>]
    /\ pc' = "i_spawn"
    /\ UNCHANGED <<sent, matched, allure_calls, command, options, idx, site, log_closes, command_process,
                   exitstatus, child, written, consumed, result, exc, outcome,
                   reporter, launches, first_run, first_fail>>

\* pexpect.spawn succeeds; logfile_read is the capture file
Spawn ==
    /\ pc = "i_spawn"
    /\ command_process' = "open"
    /\ child' = [state |-> "alive", rc |-> 0]
    /\ launches' = launches + 1
    /\ pc' = IF Len(options.interactive_inputs) >= 1 THEN "i_expect" ELSE "gr_enter"
    /\ UNCHANGED <<sent, matched, allure_calls, command, options, idx, site, log_file, log_closes, exitstatus,
                   written, consumed, result, exc, outcome, reporter, first_run,
                   first_fail>>

\* pexpect.spawn raises (command not found: ExceptionPexpect; exec failure: OSError)
SpawnFails(type) ==
    /\ pc = "i_spawn"
    /\ RaiseAt(Raw(type))
    /\ UNCHANGED <<sent, matched, allure_calls, command, options, idx, log_file, log_closes, command_process,
                   exitstatus, child, written, consumed, result, outcome, reporter,
                   launches, first_run, first_fail>>

\* expect(prompt_pattern) returns: the pattern is in the output not yet consumed
ExpectMatch ==
    /\ pc = "i_expect"
    /\ MatchAt(CurrentInput.prompt_pattern) # {}
    /\ consumed' = FirstMatch(CurrentInput.prompt_pattern)
    /\ ReadAvailable
    /\ matched' = matched + 1
    /\ pc' = "i_sendline"
    /\ UNCHANGED <<sent, allure_calls, command, options, idx, site, log_closes, command_process,
                   exitstatus, child, written, result, exc, outcome, reporter,
                   launches, first_run, first_fail>>

\* expect(prompt_pattern) raises pexpect.EOF: the child ended without the pattern
ExpectEOF ==
    /\ pc = "i_expect"
    /\ MatchAt(CurrentInput.prompt_pattern) = {}
    /\ child.state = "exited"
    /\ ReadAvailable
    /\ NoteFail(idx, "EOF")
    /\ RaiseAt(Raw("pexpect.EOF"))
    /\ UNCHANGED <<sent, matched, allure_calls, command, options, idx, log_closes, command_process, exitstatus,
                   child, written, consumed, result, outcome, reporter, launches,
                   first_run>>

\* mutant of ExpectTimeout: the timeout is swallowed and the loop goes on to sendline
ExpectTimeoutIgnored ==
    /\ pc = "i_expect"
    /\ options.timeout = "finite"
    /\ MatchAt(CurrentInput.prompt_pattern) = {}
    /\ child.state = "alive"
    /\ ReadAvailable
    /\ NoteFail(idx, "TIMEOUT")
    /\ pc' = "i_sendline"
    /\ UNCHANGED <<sent, matched, allure_calls, command, options, idx, site, log_closes,
                   command_process, exitstatus, child, written, consumed, result, exc,
                   outcome, reporter, launches, first_run>>

\* expect(prompt_pattern) raises pexpect.TIMEOUT: the child is alive, no pattern seen
ExpectTimeout ==
    /\ pc = "i_expect"
    /\ options.timeout = "finite"
    /\ MatchAt(CurrentInput.prompt_pattern) = {}
    /\ child.state = "alive"
    /\ ReadAvailable
    /\ NoteFail(idx, "TIMEOUT")
    /\ RaiseAt(Raw("pexpect.TIMEOUT"))
    /\ UNCHANGED <<sent, matched, allure_calls, command, options, idx, log_closes, command_process, exitstatus,
                   child, written, consumed, result, outcome, reporter, launches,
                   first_run>>

\* sendline(input): the pty echoes the input; the loop goes on or ends
Sendline ==
    /\ pc = "i_sendline"
    /\ written' = IF child.state = "alive"
                  THEN Append(written, Echo(CurrentInput.input))
                  ELSE written
    /\ sent' = Append(sent, CurrentInput.input)
    /\ idx' = idx + 1
    /\ pc' = IF idx < Len(options.interactive_inputs) THEN "i_expect" ELSE "gr_enter"
    /\ UNCHANGED <<matched, allure_calls, command, options, site, log_file, log_closes, command_process,
                   exitstatus, child, consumed, result, exc, outcome, reporter,
                   launches, first_run, first_fail>>

\* sendline(input) raises OSError: the child has gone and the pty refuses the write
SendlineOSError ==
    /\ pc = "i_sendline"
    /\ child.state = "exited"
    /\ RaiseAt(Raw("OSError"))
    /\ UNCHANGED <<sent, matched, allure_calls, command, options, idx, log_file, log_closes, command_process,
                   exitstatus, child, written, consumed, result, outcome, reporter,
                   launches, first_run, first_fail>>

\* ------------------------------------------------------------- session result
\* mutant of GetPexpectProcessResultNone: the fallback capture is made whether or not
\* there is a session object
GetPexpectProcessResultAlways(rc, out) ==
    /\ pc = "gr_enter"
    /\ result' = Some(GetFailingCommandResult(rc, out))
    /\ launches' = launches + 1
    /\ pc' = "i_tail"
    /\ UNCHANGED <<sent, matched, allure_calls, command, options, idx, site, log_file,
                   log_closes, command_process, exitstatus, child, written, consumed,
                   exc, outcome, reporter, first_run, first_fail>>

\* _get_pexpect_process_result with command_process None: the fallback capture
GetPexpectProcessResultNone(rc, out) ==
    /\ pc = "gr_enter"
    /\ command_process = "None"
    /\ result' = Some(GetFailingCommandResult(rc, out))
    /\ launches' = launches + 1
    /\ pc' = "i_tail"
    /\ UNCHANGED <<sent, matched, allure_calls, command, options, idx, site, log_file, log_closes, command_process,
                   exitstatus, child, written, consumed, exc, outcome, reporter,
                   first_run, first_fail>>

\* if command_process.isalive(): only a living child is waited for
IsAlive ==
    /\ pc = "gr_enter"
    /\ command_process # "None"
    /\ pc' = IF child.state = "alive" THEN "gr_expect_eof" ELSE "gr_close"
    /\ UNCHANGED <<sent, matched, allure_calls, command, options, idx, site, log_file, log_closes, command_process,
                   exitstatus, child, written, consumed, result, exc, outcome,
                   reporter, launches, first_run, first_fail>>

\* expect(pexpect.EOF) returns: the child ended, the rest of its output is read
ExpectEndOfStream ==
    /\ pc = "gr_expect_eof"
    /\ child.state = "exited"
    /\ ReadAvailable
    /\ pc' = "gr_close"
    /\ UNCHANGED <<sent, matched, allure_calls, command, options, idx, site, log_closes, command_process,
                   exitstatus, child, written, consumed, result, exc, outcome,
                   reporter, launches, first_run, first_fail>>

\* expect(pexpect.EOF) raises pexpect.TIMEOUT: the child is still alive
ExpectEndOfStreamTimeout ==
    /\ pc = "gr_expect_eof"
    /\ options.timeout = "finite"
    /\ child.state = "alive"
    /\ ReadAvailable
    /\ NoteFail(0, "TIMEOUT")
    /\ RaiseAt(Raw("pexpect.TIMEOUT"))
    /\ UNCHANGED <<sent, matched, allure_calls, command, options, idx, log_closes, command_process, exitstatus,
                   child, written, consumed, result, outcome, reporter, launches,
                   first_run>>

\* close(), exitstatus, then seek(0) and read() of the capture file
CloseAndRead ==
    /\ pc = "gr_close"
    /\ command_process' = "closed"
    /\ exitstatus' = Some(child.rc)
    /\ IF log_file.state = "open"
       THEN /\ result' = Some(CommandResult(log_file.data, <<>>, child.rc))
            /\ pc' = "i_tail"
            /\ UNCHANGED <<exc, site>>
       ELSE /\ RaiseAt(Raw("ValueError"))
            /\ UNCHANGED result
    /\ UNCHANGED <<sent, matched, allure_calls, command, options, idx, log_file, log_closes, child, written,
                   consumed, outcome, reporter, launches, first_run, first_fail>>

\* ------------------------------------------------------------- after the result
\* the message the interactive strategy formats from a result
Message(res, out) ==
    Exception("RuntimeError", Some(command), Some(res.return_code), Some(out))

\* mutant of CheckReturnCode: the capture file is closed as soon as the check fails,
\* before the handler collects the result again
CheckReturnCodeClosesLog ==
    /\ pc = "i_tail"
    /\ site = "try"
    /\ IF options.check /\ result[1].return_code # 0
       THEN /\ exc' = Some(Message(result[1], result[1].stdout))
            /\ site' = "except_exception"
            /\ log_file' = [log_file EXCEPT !.state = "closed"]
            /\ log_closes' = log_closes + 1
            /\ pc' = "gr_enter"
       ELSE /\ pc' = "i_finally"
            /\ UNCHANGED <<exc, site, log_file, log_closes>>
    /\ UNCHANGED <<sent, matched, allure_calls, command, options, idx, command_process,
                   exitstatus, child, written, consumed, result, outcome, reporter,
                   launches, first_run, first_fail>>

\* mutant of CheckReturnCode: the return code is not looked at
CheckReturnCodeSkipped ==
    /\ pc = "i_tail"
    /\ site = "try"
    /\ pc' = "i_finally"
    /\ UNCHANGED <<sent, matched, allure_calls, command, options, idx, site, log_file, log_closes, command_process,
                   exitstatus, child, written, consumed, result, exc, outcome,
                   reporter, launches, first_run, first_fail>>

\* try body after the result: the check of the return code, or return result
CheckReturnCode ==
    /\ pc = "i_tail"
    /\ site = "try"
    /\ IF options.check /\ result[1].return_code # 0
       THEN /\ exc' = Some(Message(result[1], result[1].stdout))
            /\ site' = "except_exception"
            /\ pc' = "gr_enter"
       ELSE /\ pc' = "i_finally"
            /\ UNCHANGED <<exc, site>>
    /\ UNCHANGED <<sent, matched, allure_calls, command, options, idx, log_file, log_closes, command_process,
                   exitstatus, child, written, consumed, result, outcome, reporter,
                   launches, first_run, first_fail>>

\* mutant of ExceptPexpect: with check the pexpect exception is re-raised as it is
ExceptPexpectReraises ==
    /\ pc = "i_tail"
    /\ site = "except_pexpect"
    /\ exc' = IF options.check THEN exc ELSE None
    /\ pc' = "i_finally"
    /\ UNCHANGED <<sent, matched, allure_calls, command, options, idx, site, log_file, log_closes, command_process,
                   exitstatus, child, written, consumed, result, outcome, reporter,
                   launches, first_run, first_fail>>

\* mutant of ExceptPexpect: the error is raised whatever options.check
ExceptPexpectAlwaysRaises ==
    /\ pc = "i_tail"
    /\ site = "except_pexpect"
    /\ exc' = Some(Message(result[1], result[1].stdout))
    /\ pc' = "i_finally"
    /\ UNCHANGED <<sent, matched, allure_calls, command, options, idx, site, log_file, log_closes, command_process,
                   exitstatus, child, written, consumed, result, outcome, reporter,
                   launches, first_run, first_fail>>

\* except pexpect.ExceptionPexpect, after the result: raise if check, else log, return
ExceptPexpect ==
    /\ pc = "i_tail"
    /\ site = "except_pexpect"
    /\ exc' = IF options.check THEN Some(Message(result[1], result[1].stdout)) ELSE None
    /\ pc' = "i_finally"
    /\ UNCHANGED <<sent, matched, allure_calls, command, options, idx, site, log_file, log_closes, command_process,
                   exitstatus, child, written, consumed, result, outcome, reporter,
                   launches, first_run, first_fail>>

\* except OSError, after the result: the message carries strerror as its output
ExceptOSError ==
    /\ pc = "i_tail"
    /\ site = "except_oserror"
    /\ exc' = IF options.check THEN Some(Message(result[1], <<StrError>>)) ELSE None
    /\ pc' = "i_finally"
    /\ UNCHANGED <<sent, matched, allure_calls, command, options, idx, site, log_file, log_closes, command_process,
                   exitstatus, child, written, consumed, result, outcome, reporter,
                   launches, first_run, first_fail>>

\* except Exception, after the result: raise
ExceptException ==
    /\ pc = "i_tail"
    /\ site = "except_exception"
    /\ pc' = "i_finally"
    /\ UNCHANGED <<sent, matched, allure_calls, command, options, idx, site, log_file, log_closes, command_process,
                   exitstatus, child, written, consumed, result, exc, outcome,
                   reporter, launches, first_run, first_fail>>

\* mutant of ExecInteractiveFinally: the capture file is closed on the way out of the
\* try body only, not when an exception is in flight
ExecInteractiveFinallyNoCloseOnRaise ==
    /\ pc = "i_finally"
    /\ IF exc = None
       THEN /\ log_file' = [log_file EXCEPT !.state = "closed"]
            /\ log_closes' = log_closes + 1
       ELSE UNCHANGED <<log_file, log_closes>>
    /\ ReportCommandResult
    /\ UNCHANGED <<sent, matched, allure_calls, command, options, idx, site, command_process, exitstatus, child,
                   written, consumed, result, exc, outcome, reporter, launches,
                   first_run, first_fail>>

\* finally of _exec_interactive: the capture file is closed, the result reported
ExecInteractiveFinally ==
    /\ pc = "i_finally"
    /\ log_file' = [log_file EXCEPT !.state = "closed"]
    /\ log_closes' = log_closes + 1
    /\ ReportCommandResult
    /\ UNCHANGED <<sent, matched, allure_calls, command, options, idx, site, command_process, exitstatus, child,
                   written, consumed, result, exc, outcome, reporter, launches,
                   first_run, first_fail>>

\* ------------------------------------------------------------- specification
Next ==
    \/ \E cmd \in Commands, opts \in {None} \cup {Some(o) : o \in CommandOptions} :
           Exec(cmd, opts)
    \/ \E rc \in ReturnCodes, out \in RunOutputs : SubprocessRunExits(rc, out)
    \/ SubprocessRunOSError
    \/ SubprocessRunTimeout
    \/ SubprocessRunBlocks
    \/ \E rc \in ReturnCodes, out \in RunOutputs : NiExceptCalledProcessError(rc, out)
    \/ NiExceptOSError
    \/ \E rc \in ReturnCodes, out \in RunOutputs : NiExceptException(rc, out)
    \/ FallbackBlocks
    \/ NiFinally
    \/ ExecInteractiveEnter
    \/ Spawn
    \/ \E type \in {"pexpect.ExceptionPexpect", "OSError"} : SpawnFails(type)
    \/ \E c \in ChildChunks : ChildWrites(c)
    \/ \E rc \in ReturnCodes : ChildExits(rc)
    \/ ExpectMatch
    \/ ExpectEOF
    \/ ExpectTimeout
    \/ Sendline
    \/ SendlineOSError
    \/ \E rc \in ReturnCodes, out \in RunOutputs : GetPexpectProcessResultNone(rc, out)
    \/ IsAlive
    \/ ExpectEndOfStream
    \/ ExpectEndOfStreamTimeout
    \/ CloseAndRead
    \/ CheckReturnCode
    \/ ExceptPexpect
    \/ ExceptOSError
    \/ ExceptException
    \/ ExecInteractiveFinally
    \/ ReporterStep
    \/ ReporterAttach
    \/ ReporterStepExit
    \/ Deliver

Spec == Init /\ [][Next]_vars

\* exec with a Reporter whose attach may raise
NextAttachRaises == Next \/ ReporterAttachRaises

SpecAttachRaises == Init /\ [][NextAttachRaises]_vars

\* ------------------------------------------------------------- AllureReporter
\* attach calls kept in allure_calls
MaxAttach == 3

\* file names handed to attach, as sequences of characters
FileNames ==
    {
      <<"o", "u", "t", ".", "j", "s", "o", "n">>,
      <<"o", "u", "t", ".", "p", "n", "g">>,
      <<"o", "u", "t", ".", "u", "n", "k", "n", "o", "w", "n", "e", "x", "t">>,
      <<"O", "U", "T", ".", "X", "M", "L">>,
      <<"o", "u", "t">>,
      <<".", "j", "s", "o", "n">>
    }

UpperLetters == <<"A", "B", "C", "D", "E", "F", "G", "H", "I", "J", "K", "L", "M", "N", "O", "P", "Q", "R", "S", "T", "U", "V", "W", "X", "Y", "Z">>
LowerLetters == <<"a", "b", "c", "d", "e", "f", "g", "h", "i", "j", "k", "l", "m", "n", "o", "p", "q", "r", "s", "t", "u", "v", "w", "x", "y", "z">>

\* str.lower() on one character, on a string
LowerChar(c) ==
    IF \E i \in 1..Len(UpperLetters) : UpperLetters[i] = c
    THEN LowerLetters[CHOOSE i \in 1..Len(UpperLetters) : UpperLetters[i] = c]
    ELSE c

Lower(str) == [i \in 1..Len(str) |-> LowerChar(str[i])]

\* the largest position of character c in p, 0 if there is none (str.rfind)
RFind(p, c) ==
    IF \E i \in 1..Len(p) : p[i] = c
    THEN CHOOSE i \in 1..Len(p) : p[i] = c /\ \A j \in (i + 1)..Len(p) : p[j] # c
    ELSE 0

\* os.path.splitext: <<root, ext>>; ext starts at the last dot of the last path
\* component and keeps that dot; leading dots of the component start no extension
SplitExt(p) ==
    LET sepIndex == RFind(p, "/")
        dotIndex == RFind(p, ".")
    IN  IF /\ dotIndex > sepIndex
           /\ \E k \in (sepIndex + 1)..(dotIndex - 1) : p[k] # "."
        THEN <<SubSeq(p, 1, dotIndex - 1), SubSeq(p, dotIndex, Len(p))>>
        ELSE <<p, <<>>>>

\* allure's attachment_type enumeration, in its order: the extensions carry no dot
AttachmentType ==
    <<
       [name |-> "TEXT", mime_type |-> "text/plain",
        extension |-> <<"t", "x", "t">>],
       [name |-> "CSV", mime_type |-> "text/csv",
        extension |-> <<"c", "s", "v">>],
       [name |-> "TSV", mime_type |-> "text/tab-separated-values",
        extension |-> <<"t", "s", "v">>],
       [name |-> "URI_LIST", mime_type |-> "text/uri-list",
        extension |-> <<"u", "r", "i">>],
       [name |-> "HTML", mime_type |-> "text/html",
        extension |-> <<"h", "t", "m", "l">>],
       [name |-> "XML", mime_type |-> "application/xml",
        extension |-> <<"x", "m", "l">>],
       [name |-> "JSON", mime_type |-> "application/json",
        extension |-> <<"j", "s", "o", "n">>],
       [name |-> "YAML", mime_type |-> "application/yaml",
        extension |-> <<"y", "a", "m", "l">>],
       [name |-> "PCAP", mime_type |-> "application/vnd.tcpdump.pcap",
        extension |-> <<"p", "c", "a", "p">>],
       [name |-> "PNG", mime_type |-> "image/png",
        extension |-> <<"p", "n", "g">>],
       [name |-> "JPG", mime_type |-> "image/jpg",
        extension |-> <<"j", "p", "g">>],
       [name |-> "SVG", mime_type |-> "image/svg-xml",
        extension |-> <<"s", "v", "g">>],
       [name |-> "GIF", mime_type |-> "image/gif",
        extension |-> <<"g", "i", "f">>],
       [name |-> "BMP", mime_type |-> "image/bmp",
        extension |-> <<"b", "m", "p">>],
       [name |-> "TIFF", mime_type |-> "image/tiff",
        extension |-> <<"t", "i", "f", "f">>],
       [name |-> "MP4", mime_type |-> "video/mp4",
        extension |-> <<"m", "p", "4">>],
       [name |-> "OGG", mime_type |-> "video/ogg",
        extension |-> <<"o", "g", "g">>],
       [name |-> "WEBM", mime_type |-> "video/webm",
        extension |-> <<"w", "e", "b", "m">>],
       [name |-> "PDF", mime_type |-> "application/pdf",
        extension |-> <<"p", "d", "f">>]
    >>

\* attachment_type.<name>: the member of that name, or none (AttributeError)
Member(name) ==
    IF \E i \in 1..Len(AttachmentType) : AttachmentType[i].name = name
    THEN Some(AttachmentType[CHOOSE i \in 1..Len(AttachmentType) :
                                 AttachmentType[i].name = name])
    ELSE None

\* _resolve_attachment_type: the arguments of next() are evaluated first, the default
\* attachment_type.TXT among them; then the first member whose extension equals the
\* lowered extension, or the default
ResolveAttachmentType(extension) ==
    LET ext == Lower(extension)
        default == Member("TXT")
        hits == {i \in 1..Len(AttachmentType) : AttachmentType[i].extension = ext}
    IN  IF default = None
        THEN [raised |-> Some("AttributeError"), type |-> None]
        ELSE [raised |-> None,
              type |-> IF hits # {}
                       THEN Some(AttachmentType[CHOOSE i \in hits :
                                                  \A j \in hits : i <= j].name)
                       ELSE Some(default[1].name)]

\* AllureReporter.attach: what allure.attach is handed, or the exception raised
Attach(file_name) ==
    /\ Len(allure_calls) < MaxAttach
    /\ LET split == SplitExt(file_name)
           resolved == ResolveAttachmentType(split[2])
       IN  allure_calls' = Append(allure_calls,
               [file_name |-> file_name,
                attachment_name |-> split[1],
                extension |-> split[2],
                raised |-> resolved.raised,
                attachment_type |-> resolved.type])
    /\ UNCHANGED <<pc, command, options, idx, site, log_file, log_closes,
                   command_process, exitstatus, child, written, consumed, result, exc,
                   outcome, reporter, launches, first_run, first_fail, sent, matched>>

NextReporter == \E file_name \in FileNames : Attach(file_name)

\* the reporter on its own: attach calls on file names of FileNames
SpecReporter == Init /\ [][NextReporter]_vars

\* ------------------------------------------------------------- vocabulary of the claims
Done == pc = "done"
Interactive == options.interactive_inputs # <<>>
Raised == outcome.kind = "raise"
Returned == outcome.kind = "return"

\* the error exec raises is the uniform one and its message carries the command text
UniformError ==
    /\ Raised
    /\ outcome.exc[1].type = "RuntimeError"
    /\ outcome.exc[1].command = Some(command)

RaisedType(type) == Raised /\ outcome.exc[1].type = type

\* the process could not be started by the strategy's own launch
SpawnFailed ==
    IF Interactive
    THEN command_process = "None" /\ pc \notin {"i_enter", "i_spawn"}
    ELSE first_run.end = "oserror"

\* the exit code of the run the strategy launched
ExitCode == IF Interactive THEN child.rc ELSE first_run.returncode

\* the run the strategy launched exited, while exec was attending to it, with a code # 0
NonZeroExit ==
    /\ IF Interactive THEN child.state = "exited" ELSE first_run.end = "exit"
    /\ ExitCode # 0

\* a wait for a prompt pattern failed (by timeout, or by the end of the stream)
PromptNotSeen == first_fail # None /\ first_fail[1].at > 0

\* the command outlived the timeout: subprocess.run's, or the wait for end-of-stream
ProcessTimeout ==
    IF Interactive
    THEN first_fail # None /\ first_fail[1].at = 0
    ELSE first_run.end = "timeout"

IsPrefix(s, t) == Len(s) <= Len(t) /\ SubSeq(t, 1, Len(s)) = s

\* ------------------------------------------------------------- C1
\* C1: every finished exec call made exactly one step call and one attach call on the
\* Reporter, except a non-interactive call whose spawn failed, which made none.
C1_ExactlyOneReport ==
    Done =>
        IF ~Interactive /\ SpawnFailed
        THEN reporter.steps = 0 /\ reporter.attaches = 0
        ELSE reporter.steps = 1 /\ reporter.attaches = 1

C3_NonZeroCheckRaises ==
    (Done /\ options.check /\ NonZeroExit) =>
        /\ UniformError
        /\ outcome.exc[1].return_code = Some(ExitCode)
        /\ outcome.value = None

\* an interactive session whose inputs were all sent ended with a code # 0, check=true
C3_Witness ==
    /\ Done /\ options.check /\ Interactive /\ NonZeroExit
    /\ first_fail = None /\ site = "except_exception"
    /\ UniformError

\* ------------------------------------------------------------- C4
\* C4: a command run with check=false that exits with a non-zero code makes exec return
\* a CommandResult whose return_code is that exit code; exec does not raise.
C4_NonZeroNoCheckReturns ==
    (Done /\ ~options.check /\ NonZeroExit) =>
        /\ Returned
        /\ outcome.value # None
        /\ outcome.value[1].return_code = ExitCode

\* a non-interactive command exited with a code # 0 under check=false
C4_Witness ==
    /\ Done /\ ~options.check /\ ~Interactive /\ NonZeroExit
    /\ Returned

C6_SpawnFailureAlwaysRaises ==
    (Done /\ SpawnFailed) => Raised

\* C6 amended: a spawn failure makes the non-interactive strategy raise the uniform
\* error whatever check is; the interactive strategy raises it if check=true and, if
\* check=false, returns the CommandResult of the fallback capture.
C6_SpawnFailureRaisesUnlessInteractiveNoCheck ==
    (Done /\ SpawnFailed) =>
        IF Interactive /\ ~options.check
        THEN Returned /\ outcome.value # None /\ outcome.value = result
        ELSE UniformError

\* the non-interactive spawn failed under check=false and exec raised
C6_Witness ==
    /\ Done /\ SpawnFailed /\ ~Interactive /\ ~options.check
    /\ UniformError

\* ------------------------------------------------------------- C7
\* C7: with two inputs and check=true, a failed wait for the second prompt makes exec
\* raise an error whose captured stdout holds everything written up to the failure.
C7_SecondPromptFailureCarriesOutput ==
    (Done /\ options.check /\ Len(options.interactive_inputs) = 2
          /\ first_fail # None /\ first_fail[1].at = 2) =>
        /\ Raised
        /\ outcome.exc[1].output # None
        /\ IsPrefix(first_fail[1].written, outcome.exc[1].output[1])

\* ------------------------------------------------------------- C8
\* C8: a non-interactive call with a finite timeout whose command never exits on its
\* own is never blocked for good.
C8_TimeoutNeverBlocks ==
    (~Interactive /\ options.timeout = "finite" /\ first_run.end = "timeout") =>
        pc # "blocked"

\* ------------------------------------------------------------- C9
\* C9: an interactive call that has returned or raised has closed its session handle.
C9_HandleClosed ==
    (Done /\ Interactive /\ command_process # "None") => command_process = "closed"

\* ------------------------------------------------------------- C10
\* C10: an interactive call that has returned or raised has closed the capture file,
\* by exactly one close() call, and no call closes it before its finally block.
C10_LogFileClosedOnce ==
    /\ (Interactive /\ outcome.kind # "none") =>
           log_file.state = "closed" /\ log_closes = 1
    /\ (Interactive /\ pc \in {"i_enter", "i_spawn", "i_expect", "i_sendline",
                                "gr_enter", "gr_expect_eof", "gr_close", "i_tail",
                                "i_finally"}) => log_closes = 0
    /\ log_closes <= 1

\* exec raised the exception of a wait that failed inside an except clause
C10_Witness ==
    /\ Done /\ Interactive
    /\ RaisedType("pexpect.TIMEOUT")
    /\ log_file.state = "closed" /\ log_closes = 1

\* ------------------------------------------------------------- C11
\* C11: once the non-interactive spawn has failed, the call launches nothing more,
\* builds no CommandResult, makes no step or attach call, goes straight through its
\* finally block, and raises the uniform error whatever check is.
C11_SpawnFailureNoFallbackNoReport ==
    (~Interactive /\ first_run.end = "oserror") =>
        /\ launches = 0
        /\ result = None
        /\ reporter.steps = 0 /\ reporter.attaches = 0 /\ ~reporter.open
        /\ pc \in {"ni_except_oserror", "ni_finally", "deliver", "done"}
        /\ Done => (UniformError /\ outcome.exc[1].return_code = None)

\* the non-interactive spawn failed under check=true and exec has raised
C11_Witness ==
    /\ Done /\ ~Interactive /\ first_run.end = "oserror" /\ options.check
    /\ Raised /\ launches = 0 /\ reporter.steps = 0

\* ------------------------------------------------------------- C12
\* the category the claim gives a file name: the one whose extension is the text after
\* the file name's last dot, lowered; the text category if there is none
ClaimedCategory(file_name) ==
    LET ext == Lower(SplitExt(file_name)[2])
        bare == SubSeq(ext, 2, Len(ext))
        hits == {i \in 1..Len(AttachmentType) : AttachmentType[i].extension = bare}
    IN  IF hits # {} THEN AttachmentType[CHOOSE i \in hits : TRUE].name ELSE "TEXT"

\* C12: every attach call forwards to allure the category of the file name's extension:
\* JSON for out.json, PNG for out.png, TEXT for out.unknownext and any unknown one.
C12_CategoryByExtension ==
    \A i \in 1..Len(allure_calls) :
        /\ allure_calls[i].raised = None
        /\ allure_calls[i].attachment_type =
               Some(ClaimedCategory(allure_calls[i].file_name))

\* ------------------------------------------------------------- C13
\* C13: a non-interactive command that exits with code 0 makes exec return, from that
\* single run, CommandResult(stdout = its merged output, stderr = "", return_code = 0);
\* and every CommandResult either strategy builds or returns has an empty stderr.
C13_ZeroExitResult ==
    /\ (Done /\ ~Interactive /\ first_run.end = "exit" /\ first_run.returncode = 0) =>
           /\ Returned
           /\ outcome.value = Some(CommandResult(first_run.output, <<>>, 0))
           /\ launches = 1
    /\ result # None => result[1].stderr = <<>>
    /\ outcome.value # None => outcome.value[1].stderr = <<>>

\* a non-interactive command wrote a line, exited with 0 under check=true, exec returned
C13_Witness ==
    /\ Done /\ ~Interactive /\ options.check
    /\ first_run.end = "exit" /\ first_run.returncode = 0
    /\ first_run.output = <<Text, NL>>
    /\ Returned /\ outcome.value[1].stdout = <<Text, NL>>

\* ------------------------------------------------------------- C14
NonInteractivePcs ==
    {"ni_run", "ni_except_called", "ni_except_oserror", "ni_except_exception",
     "ni_finally"}

InteractivePcs ==
    {"i_enter", "i_spawn", "i_expect", "i_sendline", "gr_enter", "gr_expect_eof",
     "gr_close", "i_tail", "i_finally"}

\* C14: a call runs the interactive strategy if and only if its interactive_inputs are
\* non-empty, and the other strategy otherwise; a finished call has run exactly one of
\* them; a non-interactive call never has a capture file, a session or a pty child.
C14_OneStrategyByInputs ==
    /\ pc \in NonInteractivePcs => ~Interactive
    /\ pc \in InteractivePcs => Interactive
    /\ ~Interactive =>
           /\ log_file.state = "None" /\ log_closes = 0
           /\ command_process = "None" /\ child.state = "none"
    /\ Interactive => first_run.end = "none"
    /\ Done => /\ Interactive <=> log_file.state # "None"
               /\ ~Interactive <=> first_run.end # "none"

\* a call with the default options has run the non-interactive strategy to its end
C14_Witness ==
    /\ Done /\ options = DefaultCommandOptions
    /\ first_run.end = "exit" /\ log_file.state = "None" /\ command_process = "None"

\* ------------------------------------------------------------- C15
\* the inputs sent are the first ones of the list, in list order
SentInOrder ==
    /\ Len(sent) <= Len(options.interactive_inputs)
    /\ \A k \in 1..Len(sent) : sent[k] = options.interactive_inputs[k].input

\* the i-th input is sent only after the i-th expect(prompt_pattern) has returned
SentAfterMatch == Len(sent) <= matched /\ matched <= Len(sent) + 1

\* after a wait failed nothing more was sent: the inputs sent are those before it
NothingSentAfterFail ==
    first_fail # None =>
        Len(sent) = IF first_fail[1].at > 0
                    THEN first_fail[1].at - 1
                    ELSE Len(options.interactive_inputs)

\* the session result is being collected, or was: wait for end-of-stream, close, read
Collecting == pc \in {"gr_expect_eof", "gr_close"} \/ command_process = "closed"

\* sendline raised OSError and the except OSError clause is collecting the result
SendFailed == site = "except_oserror" /\ command_process # "None"

\* C15 as claimed: inputs go out in list order, each after its prompt matched, none
\* after a failed wait; and the wait for end-of-stream, the close and the read happen
\* only after the last input was sent or a wait failed.
C15_CollectOnlyAfterInputsOrFailedWait ==
    /\ SentInOrder
    /\ SentAfterMatch
    /\ NothingSentAfterFail
    /\ Collecting =>
           (Len(sent) = Len(options.interactive_inputs) \/ first_fail # None)

\* C15 amended: the same, except that the wait for end-of-stream, the close and the
\* read also happen after a sendline that raised OSError (the except OSError clause
\* collects the session result too).
C15_CollectOnlyAfterInputsOrFailure ==
    /\ SentInOrder
    /\ SentAfterMatch
    /\ NothingSentAfterFail
    /\ Collecting =>
           \/ Len(sent) = Len(options.interactive_inputs)
           \/ first_fail # None
           \/ SendFailed

\* two prompts matched, two inputs sent, then the session was closed and read
C15_Witness ==
    /\ Done /\ Interactive
    /\ Len(sent) = 2 /\ matched = 2 /\ first_fail = None
    /\ command_process = "closed" /\ Returned

\* ------------------------------------------------------------- C16
\* C16: the step scope is open exactly while attach is called and until the with
\* statement is left; attach is called only inside it, at most once, after the one
\* step call; the scope is closed before exec returns or raises, also when attach
\* raised; and exec gives its caller nothing before the report is over.
C16_AttachInsideStepBeforeReturn ==
    /\ reporter.open <=> pc \in {"report_attach", "report_exit"}
    /\ pc \in {"report_attach", "report_exit"} => reporter.steps = 1
    /\ reporter.attaches = (IF pc \in {"report_exit"} THEN 1
                            ELSE IF pc \in {"deliver", "done"} THEN reporter.steps
                            ELSE 0)
    /\ outcome.kind # "none" => (pc = "done" /\ ~reporter.open)
    /\ pc \in {"report_step", "report_attach", "report_exit", "deliver"} =>
           outcome.kind = "none"
    /\ (Done /\ RaisedType("ReporterError")) =>
           reporter.steps = 1 /\ reporter.attaches = 1 /\ ~reporter.open

\* attach raised inside the step scope; exec raised that exception, the scope closed
C16_Witness ==
    /\ Done /\ RaisedType("ReporterError")
    /\ reporter.steps = 1 /\ reporter.attaches = 1 /\ ~reporter.open

\* ------------------------------------------------------------- C17
\* exec raised because the command the strategy launched exited with a code # 0 under
\* check=true (and not because a wait or a sendline failed before)
RaisedOnCheck ==
    /\ Done /\ options.check /\ NonZeroExit /\ UniformError
    /\ Interactive => (first_fail = None /\ site = "except_exception")

\* C17: when exec raises because the command exited non-zero with check=true, the
\* return code and the output in the error's message are those of the CommandResult
\* that was reported to the Reporter for that call.
C17_MessageIsReportedResult ==
    RaisedOnCheck =>
        /\ reporter.attaches = 1
        /\ result # None
        /\ outcome.exc[1].return_code = Some(result[1].return_code)
        /\ outcome.exc[1].output = Some(result[1].stdout)

\* ------------------------------------------------------------- C18
\* launches made by the chosen strategy itself: subprocess.run or pexpect.spawn started
\* the command
OwnLaunches ==
    IF Interactive
    THEN IF command_process # "None" THEN 1 ELSE 0
    ELSE IF first_run.end \in {"exit", "timeout", "hang"} THEN 1 ELSE 0

\* launches made by the fallback status+output capture
FallbackLaunches == launches - OwnLaunches

\* subprocess.run raised CalledProcessError, or an exception that is no OSError
NiFailurePath ==
    \/ first_run.end = "exit" /\ options.check /\ first_run.returncode # 0
    \/ first_run.end = "timeout"

\* C18: one exec call launches the command at most twice, once by the strategy and at
\* most once by the fallback capture; the fallback launch is made only on a failure
\* path (non-interactive: CalledProcessError or unexpected exception; interactive: a
\* failure with no session object), never when the first run's result is returned; a
\* non-interactive call with check=false that ends normally launches exactly once.
C18_AtMostTwoLaunches ==
    /\ launches <= 2
    /\ OwnLaunches <= launches
    /\ FallbackLaunches <= 1
    /\ FallbackLaunches = 1 =>
           IF Interactive
           THEN command_process = "None" /\ site # "try"
           ELSE NiFailurePath
    /\ (Returned /\ OwnLaunches = 1) => launches = 1
    /\ (Done /\ ~Interactive /\ ~options.check /\ first_run.end = "exit") =>
           Returned /\ launches = 1

\* the command was launched twice: by subprocess.run, which raised, and by the fallback
C18_Witness ==
    /\ Done /\ ~Interactive /\ NiFailurePath /\ Raised
    /\ launches = 2 /\ OwnLaunches = 1 /\ FallbackLaunches = 1

\* ------------------------------------------------------------- C19
\* positions inside _get_pexpect_process_result
CollectPcs == {"gr_enter", "gr_expect_eof", "gr_close"}

\* the check of the return code failed in the try body and the catch-all handler has
\* collected the result of the closed session a second time
CollectedAgain ==
    /\ Interactive
    /\ site = "except_exception"
    /\ first_fail = None
    /\ pc \in {"i_tail", "i_finally"}
    /\ exc # None /\ exc[1].type = "RuntimeError"

\* C19: in the interactive strategy every collection of the session result is made
\* while the capture file is open, before the close of the final block, so no seek or
\* read of a closed file (ValueError) ever happens; the second collection, made by the
\* catch-all handler after a failed check, gives the return code and stdout of the
\* first, which the error in flight was built from.
C19_CaptureReadBeforeClose ==
    /\ pc \in CollectPcs => (log_file.state = "open" /\ log_closes = 0)
    /\ exc = None \/ exc[1].type # "ValueError"
    /\ ~RaisedType("ValueError")
    /\ CollectedAgain =>
           /\ result # None
           /\ Some(result[1].return_code) = exc[1].return_code
           /\ Some(result[1].stdout) = exc[1].output

\* the handler has collected the result of a closed session again, with captured
\* output, and the capture file is still open
C19_Witness ==
    /\ CollectedAgain /\ pc = "i_tail"
    /\ command_process = "closed" /\ log_file.state = "open"
    /\ result # None /\ result[1].stdout # <<>> /\ result[1].return_code # 0

====
